---- MODULE Spec2Model ----
(***************************************************************************)
(* Model of landing.py: one run of the landing page generator.             *)
(*                                                                         *)
(* Text is a sequence of tokens.  The markup characters & < > ' " are      *)
(* tokens of their own, every other token stands for a run of ordinary     *)
(* characters; the literal pieces of the f-strings of the program are      *)
(* tokens of their own too.  A JSON value is a record [t, v]: its type     *)
(* tag and its text; a button record is a function from the recognised     *)
(* keys to JSON values, "absent" marking a key the object does not have.   *)
(***************************************************************************)
EXTENDS Integers, Sequences, FiniteSets, TLC

\* ------------------------------------------------------------------ bounds
MaxFiles == 2
MaxPerLine == 2

\* ----------------------------------------------------------- JSON values
Absent == [t |-> "absent", v |-> <<>>]
Null == [t |-> "null", v |-> <<>>]
Str(s) == [t |-> "str", v |-> s]
Num(s) == [t |-> "int", v |-> s]

Keys == {"text", "fa icon", "url", "button width", "fontsize", "color", "hovered color", "other"}
StyleKeys == {"button width", "fontsize", "color", "hovered color"}

EmptyDict == [k \in Keys |-> Absent]
Dict(f) == [k \in Keys |-> IF k \in DOMAIN f THEN f[k] ELSE Absent]

\* an element of a loaded tuple: an object (d holds its keys) or another value
Obj(d) == [t |-> "obj", v |-> <<>>, d |-> d]
Scalar(x) == [t |-> x.t, v |-> x.v, d |-> EmptyDict]
None == Scalar(Null)

\* Python truth value of a value / of an element of the tuple
Truthy(x) ==
    \/ x.t \in {"str", "list"} /\ x.v # <<>>
    \/ x.t = "int" /\ x.v # <<"0">>
    \/ x.t = "obj" /\ \E k \in Keys : x.d[k].t # "absent"

\* str() of a value inside an f-string
Format(x) == IF x.t = "null" THEN <<"None">> ELSE x.v

\* dict.get(key, default)
Get(d, k, default) == IF d[k].t = "absent" THEN default ELSE d[k]

\* --------------------------------------------------------------- helpers
RECURSIVE Flatten(_)
Flatten(ss) == IF ss = <<>> THEN <<>> ELSE Head(ss) \o Flatten(Tail(ss))

RECURSIVE Join(_, _)
Join(sep, ss) ==
    IF ss = <<>> THEN <<>>
    ELSE IF Len(ss) = 1 THEN Head(ss)
    ELSE Head(ss) \o <<sep>> \o Join(sep, Tail(ss))

Count(s, tok) == Cardinality({i \in 1..Len(s) : s[i] = tok})

Contains(s, sub) ==
    \E i \in 0..(Len(s) - Len(sub)) : \A j \in 1..Len(sub) : s[i + j] = sub[j]

\* ------------------------------------------------------------- constants
BR == "<br/>"
NL == "\n"
A_OPEN == "<a href=\""
STYLE_OPEN == " style=\""
QUOTE == "\""
DefaultButtonColor == <<"DarkOrange">>
DefaultHoverColor == <<"Orange">>
DefaultButtonWidth == <<"220">>
DefaultButtonHeight == <<"100">>

\* ------------------------------------------------------------- grouper()
Take(s, n) == SubSeq(s, 1, IF n < Len(s) THEN n ELSE Len(s))
Drop(s, n) == SubSeq(s, (IF n < Len(s) THEN n ELSE Len(s)) + 1, Len(s))
Fill(s, n, fillvalue) == s \o [i \in 1..(n - Len(s)) |-> fillvalue]

RECURSIVE GrouperShort(_, _, _)
GrouperShort(iterable, n, fillvalue) ==
    IF n <= 0 \/ Len(iterable) < n THEN <<>>
    ELSE <<Take(iterable, n)>> \o GrouperShort(Drop(iterable, n), n, fillvalue)

RECURSIVE GrouperClamped(_, _, _)
GrouperClamped(iterable, n, fillvalue) ==
    IF iterable = <<>> THEN <<>>
    ELSE LET m == IF n <= 0 THEN 1 ELSE n
         IN  <<Fill(Take(iterable, m), m, fillvalue)>>
                 \o GrouperClamped(Drop(iterable, m), m, fillvalue)

\* zip_longest over n references to one iterator: each round pulls n items,
\* a round that pulls none ends the iteration, a short round is filled;
\* with n <= 0 there is no iterator at all and nothing is produced
RECURSIVE grouper(_, _, _)
grouper(iterable, n, fillvalue) ==
    IF n <= 0 \/ iterable = <<>> THEN <<>>
    ELSE <<Fill(Take(iterable, n), n, fillvalue)>>
             \o grouper(Drop(iterable, n), n, fillvalue)

\* ------------------------------------------------- convert_link_to_html()
StyleDecls(width, fontsize, color) ==
    (IF Truthy(width) THEN <<"width: ">> \o Format(width) \o <<"px;">> ELSE <<>>)
    \o (IF Truthy(fontsize) THEN <<"font-size: ">> \o Format(fontsize) \o <<"px;">> ELSE <<>>)
    \o (IF Truthy(color) THEN <<"background-color: ">> \o Format(color) \o <<";">> ELSE <<>>)

convert_link_to_html_swapped(text, icon, url, width, fontsize, color, hovered_color, button_color) ==
    LET decls == (IF Truthy(color) THEN <<"background-color: ">> \o Format(color) \o <<";">> ELSE <<>>)
                 \o (IF Truthy(width) THEN <<"width: ">> \o Format(width) \o <<"px;">> ELSE <<>>)
                 \o (IF Truthy(fontsize) THEN <<"font-size: ">> \o Format(fontsize) \o <<"px;">> ELSE <<>>)
        style == IF decls # <<>> THEN <<STYLE_OPEN>> \o decls \o <<QUOTE>> ELSE <<>>
        hover == IF Truthy(hovered_color)
                 THEN <<" onMouseOver=this.style.backgroundColor=\"">>
                        \o Format(hovered_color) \o <<QUOTE>>
                        \o <<" onMouseOut=this.style.backgroundColor=\"">>
                        \o (IF Truthy(color) THEN Format(color) ELSE button_color)
                        \o <<QUOTE>>
                 ELSE <<>>
    IN  <<A_OPEN>> \o Format(url) \o <<"\"><button class=\"btn\" ">> \o style \o hover
          \o <<"> <i class=\"fa-solid fa-">> \o Format(icon)
          \o <<"\"></i> &nbsp; ">> \o Format(text) \o <<" </button></a>">>

convert_link_to_html(text, icon, url, width, fontsize, color, hovered_color, button_color) ==
    LET decls == StyleDecls(width, fontsize, color)
        style == IF decls # <<>> THEN <<STYLE_OPEN>> \o decls \o <<QUOTE>> ELSE <<>>
        hover == IF Truthy(hovered_color)
                 THEN <<" onMouseOver=this.style.backgroundColor=\"">>
                        \o Format(hovered_color) \o <<QUOTE>>
                        \o <<" onMouseOut=this.style.backgroundColor=\"">>
                        \o (IF Truthy(color) THEN Format(color) ELSE button_color)
                        \o <<QUOTE>>
                 ELSE <<>>
    IN  <<A_OPEN>> \o Format(url) \o <<"\"><button class=\"btn\" ">> \o style \o hover
          \o <<"> <i class=\"fa-solid fa-">> \o Format(icon)
          \o <<"\"></i> &nbsp; ">> \o Format(text) \o <<" </button></a>">>

\* ---------------------------------------------------- json_repr_to_html()
\* result: [ok, out]; an element that is not a dict has no .get
json_repr_to_html(data, button_color) ==
    IF data.t # "obj" THEN [ok |-> FALSE, out |-> <<>>]
    ELSE [ok |-> TRUE,
          out |-> convert_link_to_html(
                      Get(data.d, "text", Str(<<>>)),
                      Get(data.d, "fa icon", Str(<<"home">>)),
                      Get(data.d, "url", Str(<<"/">>)),
                      Get(data.d, "button width", Null),
                      Get(data.d, "fontsize", Null),
                      Get(data.d, "color", Null),
                      Get(data.d, "hovered color", Null),
                      button_color)]

\* ------------------------------------------------ convert_links_to_html()
\* result: [ok, out]; the padding of the last group and every other falsy
\* element are skipped by "if but_args"
Kept(line_links) == SelectSeq(line_links, Truthy)

convert_links_to_html(all_links, n, button_color) ==
    LET groups == grouper(all_links, n, None)
        Line(g) == LET kept == Kept(groups[g])
                   IN  Join(NL, [i \in 1..Len(kept) |-> json_repr_to_html(kept[i], button_color).out])
        lines == [g \in 1..Len(groups) |-> Line(g)]
    IN  IF \E g \in 1..Len(groups) : \E i \in 1..Len(groups[g]) :
              Truthy(groups[g][i]) /\ ~json_repr_to_html(groups[g][i], button_color).ok
        THEN [ok |-> FALSE, out |-> <<>>]
        ELSE [ok |-> TRUE, out |-> Join(BR, lines)]

\* ------------------------------------------------------- the input files
\* a CSV file is the rows csv.reader yields, a JSON file the kind of its
\* top-level value and the tuple() of it
CsvFile(readable, rows) ==
    [ext |-> "csv", readable |-> readable, top |-> "", rows |-> rows, elems |-> <<>>]
JsonFile(readable, top, elems) ==
    [ext |-> "json", readable |-> readable, top |-> top, rows |-> <<>>, elems |-> elems]
OtherFile(readable) ==
    [ext |-> "txt", readable |-> readable, top |-> "", rows |-> <<>>, elems |-> <<>>]

Minimal ==
    Obj(Dict(("text" :> Str(<<"<", "CV", "&", "\"">>)) @@ ("fa icon" :> Str(<<"home">>))
             @@ ("url" :> Str(<<"https://cv", "'", ">">>))))
Maximal ==
    Obj(Dict(("text" :> Str(<<"bakasp">>)) @@ ("fa icon" :> Str(<<"star">>))
             @@ ("url" :> Str(<<"https://asp">>)) @@ ("button width" :> Str(<<"400">>))
             @@ ("color" :> Str(<<"ForestGreen">>)) @@ ("hovered color" :> Str(<<"Pink">>))
             @@ ("fontsize" :> Num(<<"25">>))))
ZeroWidth ==
    Obj(Dict(("text" :> Str(<<"zero">>)) @@ ("button width" :> Num(<<"0">>))
             @@ ("color" :> Str(<<"red">>))))
HoverOnly == Obj(Dict(("url" :> Str(<<"/hover">>)) @@ ("hovered color" :> Str(<<"Pink">>))))
FontOnly == Obj(Dict(("other" :> Str(<<"x">>)) @@ ("fontsize" :> Str(<<"12">>))))

FS ==
    ("good.csv" :> CsvFile(TRUE, << <<<<"CV">>, <<"home">>, <<"https://cv">>>>,
                                     <<<<"Bingo">>, <<"dice">>, <<"https://bingo">>>> >>))
    @@ ("four.csv" :> CsvFile(TRUE, << <<<<"a">>, <<"b">>, <<"c">>, <<"d">>>> >>))
    @@ ("two.csv" :> CsvFile(TRUE, << <<<<"a">>, <<"b">>>> >>))
    @@ ("blank.csv" :> CsvFile(TRUE, << <<>> >>))
    @@ ("gone.csv" :> CsvFile(FALSE, <<>>))
    @@ ("links.json" :> JsonFile(TRUE, "array", <<Minimal, Maximal, FontOnly>>))
    @@ ("sparse.json" :> JsonFile(TRUE, "array", <<Obj(EmptyDict), ZeroWidth, HoverOnly>>))
    @@ ("null.json" :> JsonFile(TRUE, "array", <<None, Maximal>>))
    @@ ("five.json" :> JsonFile(TRUE, "array", <<Scalar(Num(<<"5">>))>>))
    @@ ("number.json" :> JsonFile(TRUE, "number", <<>>))
    @@ ("object.json" :> JsonFile(TRUE, "object", <<>>))
    @@ ("notes.txt" :> OtherFile(TRUE))

Paths == DOMAIN FS

\* ------------------------------------------------- links_repr_from_file()
\* result: [ok, out]
links_repr_from_file_lenient(infile) ==
    LET f == FS[infile]
    IN  IF f.ext = "csv" /\ f.readable /\ \A i \in 1..Len(f.rows) : Len(f.rows[i]) >= 3
        THEN [ok |-> TRUE,
              out |-> [i \in 1..Len(f.rows) |->
                         Obj(Dict(("text" :> Str(f.rows[i][1])) @@ ("fa icon" :> Str(f.rows[i][2]))
                                  @@ ("url" :> Str(f.rows[i][3]))))]]
        ELSE IF f.ext = "json" /\ f.readable /\ f.top \in {"array", "object", "string"}
        THEN [ok |-> TRUE, out |-> f.elems]
        ELSE [ok |-> f.ext \notin {"csv", "json"}, out |-> <<>>]

links_repr_from_file(infile) ==
    LET f == FS[infile]
    IN  IF f.ext = "csv"
        THEN IF f.readable /\ \A i \in 1..Len(f.rows) : Len(f.rows[i]) >= 3
             THEN [ok |-> TRUE,
                   out |-> [i \in 1..Len(f.rows) |->
                              Obj(Dict(("text" :> Str(f.rows[i][1]))
                                       @@ ("fa icon" :> Str(f.rows[i][2]))
                                       @@ ("url" :> Str(f.rows[i][3]))))]]
             ELSE [ok |-> FALSE, out |-> <<>>]
        ELSE IF f.ext = "json"
        THEN IF f.readable /\ f.top \in {"array", "object", "string"}
             THEN [ok |-> TRUE, out |-> f.elems]
             ELSE [ok |-> FALSE, out |-> <<>>]
        ELSE [ok |-> FALSE, out |-> <<>>]

\* sum(map(links_repr_from_file, infiles), ()): the first failure ends it
RECURSIVE LoadAll(_)
LoadAll(infiles) ==
    IF infiles = <<>> THEN [ok |-> TRUE, out |-> <<>>]
    ELSE LET r == links_repr_from_file(Head(infiles))
             rest == LoadAll(Tail(infiles))
         IN  IF r.ok /\ rest.ok THEN [ok |-> TRUE, out |-> r.out \o rest.out]
             ELSE [ok |-> FALSE, out |-> <<>>]

\* ------------------------------------------------------------- templates
OutDirs == {"out/", "site/"}
TemplateDirs == {"templates/", "themes/"}
Names == {"index.html", "index.css"}
OutPaths == OutDirs \X Names

\* the text of a template file; its first token tells which file it is
TemplateText(dir, name) ==
    IF name = "index.html"
    THEN <<dir, "<html>", "{{ buttons }}", "</html>">>
    ELSE <<dir, ".btn{width:", "{{ button_width }}", "px;height:", "{{ button_height }}",
           "px;background:", "{{ button_color }}", "}.btn:hover{background:",
           "{{ hover_button_color }}", "}">>

EscapeToken(tok) ==
    CASE tok = "&" -> "&amp;"
      [] tok = "<" -> "&lt;"
      [] tok = ">" -> "&gt;"
      [] tok = "'" -> "&#39;"
      [] tok = "\"" -> "&#34;"
      [] OTHER -> tok
Escape(s) == [i \in 1..Len(s) |-> EscapeToken(s[i])]

\* Markup(s) is inserted as it is, any other value is escaped
Markup(s) == [safe |-> TRUE, v |-> s]
Plain(s) == [safe |-> FALSE, v |-> s]

\* Template(...).render(variables) under autoescape
Render(template, variables) ==
    Flatten([i \in 1..Len(template) |->
        IF template[i] \in DOMAIN variables
        THEN IF variables[template[i]].safe THEN variables[template[i]].v
             ELSE Escape(variables[template[i]].v)
        ELSE <<template[i]>>])

\* ------------------------------------------------------ render_template()
Op(call, op, dir, name) == [call |-> call, op |-> op, dir |-> dir, name |-> name]

\* result: [ok, files, oplog]
render_template_late_check(call, template_name, template_dir, target_dir, variables, st) ==
    LET log1 == Append(st.oplog, Op(call, "read", template_dir, template_name))
        log2 == Append(log1, Op(call, "exists", target_dir, ""))
        log3 == Append(log2, Op(call, "write", target_dir, template_name))
    IN  IF template_dir \notin st.tpls
        THEN [ok |-> FALSE, files |-> st.files, oplog |-> log1]
        ELSE IF target_dir \notin st.dirs
        THEN [ok |-> FALSE, files |-> st.files, oplog |-> log2]
        ELSE [ok |-> TRUE, oplog |-> log3,
              files |-> [st.files EXCEPT ![<<target_dir, template_name>>] =
                           [exists |-> TRUE,
                            data |-> Render(TemplateText(template_dir, template_name), variables)]]]

render_template(call, template_name, template_dir, target_dir, variables, st) ==
    LET log1 == Append(st.oplog, Op(call, "exists", target_dir, ""))
        log2 == Append(log1, Op(call, "read", template_dir, template_name))
        log3 == Append(log2, Op(call, "write", target_dir, template_name))
    IN  IF target_dir \notin st.dirs
        THEN [ok |-> FALSE, files |-> st.files, oplog |-> log1]
        ELSE IF template_dir \notin st.tpls
        THEN [ok |-> FALSE, files |-> st.files, oplog |-> log2]
        ELSE [ok |-> TRUE, oplog |-> log3,
              files |-> [st.files EXCEPT ![<<target_dir, template_name>>] =
                           [exists |-> TRUE,
                            data |-> Render(TemplateText(template_dir, template_name), variables)]]]

\* ------------------------------------------------------------- the run
VARIABLES args, dirs, tpls, files, oplog, pc, links, html

vars == <<args, dirs, tpls, files, oplog, pc, links, html>>

InfileLists == UNION {[1..n -> Paths] : n \in 1..MaxFiles}

\* the output files a previous run with the default directories left
InitialFiles(ds) ==
    [p \in OutPaths |->
        IF p[1] = "out/" /\ "out/" \in ds
        THEN [exists |-> TRUE, data |-> <<"stale">>]
        ELSE [exists |-> FALSE, data |-> <<>>]]

parse_cli(infiles, l, o, t) ==
    [infiles |-> infiles, max_button_per_line |-> l, outdir |-> o, template_dir |-> t,
     button_width |-> DefaultButtonWidth, button_height |-> DefaultButtonHeight,
     button_color |-> DefaultButtonColor, hover_button_color |-> DefaultHoverColor]

Init ==
    /\ \E infiles \in InfileLists, l \in -1..MaxPerLine, o \in OutDirs, t \in TemplateDirs :
           args = parse_cli(infiles, l, o, t)
    /\ dirs \in SUBSET OutDirs
    /\ tpls \in SUBSET TemplateDirs
    /\ files = InitialFiles(dirs)
    /\ oplog = <<>>
    /\ pc = "load"
    /\ links = <<>>
    /\ html = <<>>

\* line 139
Load ==
    /\ pc = "load"
    /\ LET r == LoadAll(args.infiles)
       IN  /\ links' = r.out
           /\ pc' = IF r.ok THEN "convert" ELSE "failed"
    /\ UNCHANGED <<args, dirs, tpls, files, oplog, html>>

\* line 140, the argument of the call
Convert ==
    /\ pc = "convert"
    /\ LET r == convert_links_to_html(links, args.max_button_per_line, args.button_color)
       IN  /\ html' = r.out
           /\ pc' = IF r.ok THEN "render_html" ELSE "failed"
    /\ UNCHANGED <<args, dirs, tpls, files, oplog, links>>

\* line 140, the call
RenderHtml ==
    /\ pc = "render_html"
    /\ LET r == render_template(1, "index.html", args.template_dir, args.outdir,
                                ("{{ buttons }}" :> Markup(html)),
                                [dirs |-> dirs, tpls |-> tpls, files |-> files, oplog |-> oplog])
       IN  /\ files' = r.files
           /\ oplog' = r.oplog
           /\ pc' = IF r.ok THEN "render_css" ELSE "failed"
    /\ UNCHANGED <<args, dirs, tpls, links, html>>

\* line 141: no template_dir, no target_dir, so the defaults of the function
RenderCss ==
    /\ pc = "render_css"
    /\ LET r == render_template(2, "index.css", "templates/", "out/",
                                ("{{ button_width }}" :> Plain(args.button_width))
                                @@ ("{{ button_height }}" :> Plain(args.button_height))
                                @@ ("{{ hover_button_color }}" :> Plain(args.hover_button_color))
                                @@ ("{{ button_color }}" :> Plain(args.button_color)),
                                [dirs |-> dirs, tpls |-> tpls, files |-> files, oplog |-> oplog])
       IN  /\ files' = r.files
           /\ oplog' = r.oplog
           /\ pc' = IF r.ok THEN "done" ELSE "failed"
    /\ UNCHANGED <<args, dirs, tpls, links, html>>

Next == Load \/ Convert \/ RenderHtml \/ RenderCss

Spec == Init /\ [][Next]_vars

\* ======================================================================
\* Properties
\* ======================================================================
K == args.max_button_per_line
N == Len(links)
Converted == pc \in {"render_html", "render_css", "done"}
AllObjects == \A i \in 1..Len(links) : links[i].t = "obj"
Fragment(r) == json_repr_to_html(r, args.button_color).out
NoWrites == \A i \in 1..Len(oplog) : oplog[i].op # "write"
Written(dir, name) == \E i \in 1..Len(oplog) : oplog[i] = Op(oplog[i].call, "write", dir, name)
Ceil(n, k) == (n + k - 1) \div k

RECURSIVE SplitOn(_, _)
SplitOn(s, tok) ==
    IF \A i \in 1..Len(s) : s[i] # tok THEN <<s>>
    ELSE LET i == CHOOSE i \in 1..Len(s) : s[i] = tok /\ \A j \in 1..(i - 1) : s[j] # tok
         IN  <<SubSeq(s, 1, i - 1)>> \o SplitOn(SubSeq(s, i + 1, Len(s)), tok)

BadFile(p) == ~FS[p].readable \/ FS[p].ext \notin {"csv", "json"}
BadInput == \E i \in 1..Len(args.infiles) : BadFile(args.infiles[i])

\* C1: when one of the input files, at any position, is unreadable or is
\* neither .csv nor .json, the run never gets past loading, it ends in an
\* error, and no output file is created or modified: no write happens and
\* the output files stay what they were when the run started.
C1_BadInputWritesNothing ==
    BadInput => /\ pc \in {"load", "failed"}
                /\ NoWrites
                /\ files = InitialFiles(dirs)

C1_Witness ==
    /\ pc = "failed"
    /\ Len(args.infiles) = 2
    /\ ~BadFile(args.infiles[1]) /\ LoadAll(<<args.infiles[1]>>).ok
    /\ BadFile(args.infiles[2])
    /\ dirs = OutDirs /\ tpls = TemplateDirs
    /\ files = InitialFiles(dirs)

\* C2: a successful run has written index.html and index.css into the
\* configured output directory, each from the same-named template of the
\* configured template directory, and has written nowhere else.
C2_OutputsInConfiguredDirs ==
    (pc = "done" /\ K >= 1 /\ N >= 1) =>
        /\ \A n \in Names :
             /\ Written(args.outdir, n)
             /\ files[<<args.outdir, n>>].exists
             /\ Head(files[<<args.outdir, n>>].data) = args.template_dir
        /\ \A i \in 1..Len(oplog) : oplog[i].op = "write" => oplog[i].dir = args.outdir
        /\ \A p \in OutPaths : p[1] # args.outdir => files[p] = InitialFiles(dirs)[p]

\* C3: every loaded record is rendered as exactly one button, whichever keys
\* it lacks, the empty object included: the grid of N records holds N
\* buttons and the fragment of every record is in it.
C3_EveryRecordOneButton ==
    (Converted /\ K >= 1 /\ AllObjects) =>
        /\ Count(html, A_OPEN) = N
        /\ \A i \in 1..N : Contains(html, Fragment(links[i]))

\* C4: for K >= 1 the N records are cut into ceil(N/K) consecutive groups of
\* K slots, only the last of which may hold padding (it holds between 1 and
\* K records); the rendered groups are joined by ceil(N/K)-1 separators
\* when N >= 1, no group shows more than K buttons, and padding gives no
\* button.
C4_Grouping ==
    (Converted /\ K >= 1) =>
        LET groups == grouper(links, K, None)
            G == Ceil(N, K)
            rendered == SplitOn(html, BR)
        IN  /\ Len(groups) = G
            /\ \A g \in 1..Len(groups) : Len(groups[g]) = K
            /\ Flatten(groups) = links \o [i \in 1..(K * G - N) |-> None]
            /\ N >= 1 => (N - K * (G - 1)) \in 1..K
            /\ Count(html, BR) = (IF N >= 1 THEN G - 1 ELSE 0)
            /\ N >= 1 => Len(rendered) = G
            /\ \A g \in 1..Len(rendered) : Count(rendered[g], A_OPEN) <= K
            /\ Count(html, A_OPEN) = Cardinality({i \in 1..N : Truthy(links[i])})

C4_Witness ==
    /\ pc = "done"
    /\ K = 2 /\ N = 3
    /\ Count(html, BR) = 1
    /\ Count(html, A_OPEN) = 3

\* C5: the buttons of the grid, read across the groups, are the fragments of
\* the records of the first file in file order, then those of the second
\* file, and so on: nothing is reordered, duplicated, merged or left out.
C5_ButtonsInInputOrder ==
    (Converted /\ K >= 1 /\ AllObjects) =>
        /\ links = Flatten([i \in 1..Len(args.infiles) |->
                              links_repr_from_file(args.infiles[i]).out])
        /\ SelectSeq(html, LAMBDA tok : tok \notin {BR, NL})
             = Flatten([i \in 1..N |-> Fragment(links[i])])

\* C6: the text, icon and URL of a JSON record that has all three appear
\* HTML-escaped in the fragment of the record and in the written index.html.
HasLinkKeys(r) ==
    /\ r.t = "obj"
    /\ \A k \in {"text", "fa icon", "url"} : r.d[k].t = "str"

C6_ValuesEscaped ==
    (Converted /\ K >= 1) =>
        \A i \in 1..N : HasLinkKeys(links[i]) =>
            \A k \in {"text", "fa icon", "url"} :
                /\ Contains(Fragment(links[i]), Escape(links[i].d[k].v))
                /\ Written(args.outdir, "index.html") =>
                     Contains(files[<<args.outdir, "index.html">>].data, Escape(links[i].d[k].v))

\* C7: a run that reads a CSV row whose field count is not three, or a JSON
\* file that is not an array made only of objects, never completes.
Malformed(p) ==
    /\ FS[p].readable
    /\ \/ FS[p].ext = "csv" /\ \E i \in 1..Len(FS[p].rows) : Len(FS[p].rows[i]) # 3
       \/ FS[p].ext = "json"
            /\ \/ FS[p].top # "array"
               \/ \E i \in 1..Len(FS[p].elems) : FS[p].elems[i].t # "obj"

C7_MalformedInputFails ==
    (K >= 1 /\ \E i \in 1..Len(args.infiles) : Malformed(args.infiles[i])) => pc # "done"

\* C8: when the configured output directory does not exist the run fails
\* with nothing written; every call of render_template checks that its
\* destination directory exists before it opens the template or the output
\* file, a call whose check fails opens nothing, and no directory is ever
\* created.
C8_StatePart ==
    /\ args.outdir \notin dirs =>
         /\ pc \notin {"render_css", "done"}
         /\ NoWrites
         /\ files = InitialFiles(dirs)
    /\ \A i \in 1..Len(oplog) : oplog[i].op \in {"read", "write"} =>
         \E j \in 1..(i - 1) :
             /\ oplog[j].op = "exists" /\ oplog[j].call = oplog[i].call
             /\ oplog[j].dir \in dirs
             /\ oplog[i].op = "write" => oplog[i].dir = oplog[j].dir
    /\ \A j \in 1..Len(oplog) : (oplog[j].op = "exists" /\ oplog[j].dir \notin dirs) =>
         \A i \in 1..Len(oplog) : oplog[i].call = oplog[j].call => i = j

C8_MissingOutdirWritesNothing == [](C8_StatePart) /\ [][dirs' = dirs]_vars

C8_Witness ==
    /\ pc = "failed"
    /\ args.outdir \notin dirs
    /\ args.template_dir \in tpls
    /\ N >= 1
    /\ oplog = <<Op(1, "exists", args.outdir, "")>>

\* C9 as stated: a record with none of the style keys has no style attribute
\* in its fragment; a style attribute is emitted only when one of width,
\* font size, color is among the keys of the record, and it then holds the
\* declarations of the keys of the record in the order width, font-size,
\* background-color.
HasStyle(frag) == Count(frag, STYLE_OPEN) >= 1
StyleAttr(frag) ==
    LET a == CHOOSE i \in 1..Len(frag) : frag[i] = STYLE_OPEN
        z == CHOOSE i \in (a + 1)..Len(frag) :
                 frag[i] = QUOTE /\ \A j \in (a + 1)..(i - 1) : frag[j] # QUOTE
    IN  SubSeq(frag, a + 1, z - 1)
Declarations(r, Has(_)) ==
    (IF Has(r.d["button width"])
     THEN <<"width: ">> \o Format(r.d["button width"]) \o <<"px;">> ELSE <<>>)
    \o (IF Has(r.d["fontsize"])
        THEN <<"font-size: ">> \o Format(r.d["fontsize"]) \o <<"px;">> ELSE <<>>)
    \o (IF Has(r.d["color"])
        THEN <<"background-color: ">> \o Format(r.d["color"]) \o <<";">> ELSE <<>>)
StyleRule(r, Has(_)) ==
    LET frag == Fragment(r)
    IN  /\ (\A k \in StyleKeys : r.d[k].t = "absent") => ~HasStyle(frag)
        /\ HasStyle(frag) <=> \E k \in {"button width", "fontsize", "color"} : Has(r.d[k])
        /\ HasStyle(frag) => /\ Count(frag, STYLE_OPEN) = 1
                             /\ StyleAttr(frag) = Declarations(r, Has)
IsPresent(x) == x.t # "absent"

C9_StyleOfPresentKeys ==
    (Converted /\ K >= 1) => \A i \in 1..N : links[i].t = "obj" => StyleRule(links[i], IsPresent)

\* C9 amended: the same with "present" read as the code reads it, a key
\* whose value is true in Python (not null, not 0, not the empty string).
C9_StyleOfTrueKeys ==
    (Converted /\ K >= 1) => \A i \in 1..N : links[i].t = "obj" => StyleRule(links[i], Truthy)

C9_Witness ==
    /\ Converted /\ K >= 1
    /\ \E i, j \in 1..N :
         /\ links[i].t = "obj" /\ Truthy(links[i])
         /\ \A k \in StyleKeys : links[i].d[k].t = "absent"
         /\ Contains(html, Fragment(links[i])) /\ ~HasStyle(Fragment(links[i]))
         /\ links[j].t = "obj"
         /\ \A k \in {"button width", "fontsize", "color"} : Truthy(links[j].d[k])
         /\ Contains(html, Fragment(links[j])) /\ HasStyle(Fragment(links[j]))

\* C10: with a max-button-per-line of zero or less the conversion of any
\* loaded tuple succeeds and gives the empty string, and the index.html the
\* run writes holds no button.
C10_StatePart ==
    K <= 0 =>
        /\ Converted => html = <<>>
        /\ Written(args.outdir, "index.html") =>
             /\ files[<<args.outdir, "index.html">>].exists
             /\ Count(files[<<args.outdir, "index.html">>].data, A_OPEN) = 0

C10_NonPositivePerLine ==
    /\ [](C10_StatePart)
    /\ [][(pc = "convert" /\ K <= 0) => (pc' = "render_html" /\ html' = <<>>)]_vars

C10_Witness ==
    /\ pc = "done"
    /\ K <= 0
    /\ \E i \in 1..N : Truthy(links[i]) /\ links[i].t = "obj"
    /\ \E i \in 1..N : Truthy(links[i]) /\ links[i].t # "obj"
    /\ files[<<args.outdir, "index.html">>].data = <<args.template_dir, "<html>", "</html>">>

====
